---- MODULE Spec2Model ----
(***************************************************************************)
(* A model of the Bilibili downloader script (the Node.js program kept in  *)
(* src/install.bat from line 35 on, and its earlier variant src/index.js): *)
(* the format selector pickFormats and the orchestrator that downloads the *)
(* two DASH tracks, merges them, cleans up and prints one report.          *)
(***************************************************************************)
EXTENDS Integers, Sequences, FiniteSets, TLC

(***************************************************************************)
(* Bounds of the model.                                                    *)
(***************************************************************************)
\* longest format list the metadata tool returns
MaxLen == 2

(***************************************************************************)
(* Program constants.                                                      *)
(***************************************************************************)
\* the quality ceiling of the three filters
Ceiling == 720
\* downloadFile(url, filePath, retries = 3)
Retries == 3

(***************************************************************************)
(* Format descriptors.  A numeric field the metadata leaves out is NoNum;  *)
(* a codec the metadata leaves out or sets to 'none' is "none".  url is    *)
(* the identity of a descriptor: the metadata tool gives every format of a *)
(* list its own url.                                                       *)
(***************************************************************************)
NoNum == 0 - 1

Codecs == {"none", "codec"}

Heights == {NoNum, 480, 720, 1080}

Tbrs == {NoNum, 1000}

Abrs == {NoNum, 128}

NullFormat ==
  [vcodec |-> "null", acodec |-> "null", height |-> NoNum, tbr |-> NoNum,
   abr |-> NoNum, url |-> 0]

\* abr is read only from the entries without video (the comparator of
\* audios): the entries with video are listed without it
Fields ==
  {d \in [vcodec : Codecs, acodec : Codecs, height : Heights, tbr : Tbrs,
          abr : Abrs] : d.vcodec # "none" => d.abr = NoNum}

WithUrl(d, u) ==
  [vcodec |-> d.vcodec, acodec |-> d.acodec, height |-> d.height,
   tbr |-> d.tbr, abr |-> d.abr, url |-> u]

\* a list of descriptors, the i-th carrying url i
Numbered(fs) == [i \in 1..Len(fs) |-> WithUrl(fs[i], i)]

(***************************************************************************)
(* pickFormats (src/install.bat 80-111, src/index.js 46-77).               *)
(***************************************************************************)
\* f.vcodec && f.vcodec !== 'none'
Present(c) == c # "" /\ c # "none"

\* typeof f.height === 'number' && f.height <= 720
HeightOk(f) == f.height # NoNum /\ f.height <= Ceiling

\* (x || 0)
OrZero(x) == IF x = NoNum THEN 0 ELSE x

\* the muxed filter without the ceiling test
isProgAnyHeight(f) == Present(f.vcodec) /\ Present(f.acodec)

isProg(f) == Present(f.vcodec) /\ Present(f.acodec) /\ HeightOk(f)

\* the video-only filter with f.height < 720 in place of f.height <= 720
isVideoOnlyBelowCeiling(f) ==
  Present(f.vcodec) /\ ~Present(f.acodec) /\ f.height # NoNum /\ f.height < Ceiling

\* the video-only filter without the ceiling test
isVideoOnlyAnyHeight(f) == Present(f.vcodec) /\ ~Present(f.acodec)

isVideoOnly(f) == Present(f.vcodec) /\ ~Present(f.acodec) /\ HeightOk(f)

\* the audio filter without the test that the entry has no video
isAudioAny(f) == Present(f.acodec)

isAudioOnly(f) == Present(f.acodec) /\ ~Present(f.vcodec)

\* the video comparator with a and b exchanged: ascending
cmpVideoAscending(a, b) ==
  IF a.height - b.height # 0
    THEN a.height - b.height
    ELSE OrZero(a.tbr) - OrZero(b.tbr)

\* the video comparator without its tie-break on tbr
cmpVideoHeightOnly(a, b) == b.height - a.height

\* the video comparator with the operands of its tie-break exchanged
cmpVideoTbrAscending(a, b) ==
  IF b.height - a.height # 0
    THEN b.height - a.height
    ELSE OrZero(a.tbr) - OrZero(b.tbr)

\* (b.height - a.height) || ((b.tbr || 0) - (a.tbr || 0))
cmpVideo(a, b) ==
  IF b.height - a.height # 0
    THEN b.height - a.height
    ELSE OrZero(b.tbr) - OrZero(a.tbr)

\* ((b.abr || 0) - (a.abr || 0)) || ((b.tbr || 0) - (a.tbr || 0))
cmpAudio(a, b) ==
  IF OrZero(b.abr) - OrZero(a.abr) # 0
    THEN OrZero(b.abr) - OrZero(a.abr)
    ELSE OrZero(b.tbr) - OrZero(a.tbr)

Compare(k, a, b) == IF k = "video" THEN cmpVideo(a, b) ELSE cmpAudio(a, b)

\* Array.prototype.sort: a stable sort, an insertion sort on short arrays
RECURSIVE Insert(_, _, _)
Insert(k, x, s) ==
  IF s = <<>>
    THEN <<x>>
    ELSE IF Compare(k, Head(s), x) <= 0
           THEN <<Head(s)>> \o Insert(k, x, Tail(s))
           ELSE <<x>> \o s

RECURSIVE SortInto(_, _, _)
SortInto(k, s, acc) ==
  IF s = <<>> THEN acc ELSE SortInto(k, Tail(s), Insert(k, Head(s), acc))

Sort(k, s) == SortInto(k, s, <<>>)

prog(formats) == Sort("video", SelectSeq(formats, isProg))

videos(formats) == Sort("video", SelectSeq(formats, isVideoOnly))

audios(formats) == Sort("audio", SelectSeq(formats, isAudioOnly))

NullChoice == [type |-> "null", video |-> NullFormat, audio |-> NullFormat]

NotChosen == [type |-> "unset", video |-> NullFormat, audio |-> NullFormat]

pickFormats(formats) ==
  IF Len(prog(formats)) > 0
    THEN [type |-> "progressive", video |-> prog(formats)[1],
          audio |-> NullFormat]
    ELSE IF Len(videos(formats)) > 0 /\ Len(audios(formats)) > 0
           THEN [type |-> "dash", video |-> videos(formats)[1],
                 audio |-> audios(formats)[1]]
           ELSE NullChoice

(***************************************************************************)
(* Re-orderings of a list.                                                 *)
(***************************************************************************)
Perms(n) == {p \in [1..n -> 1..n] : \A i, j \in 1..n : p[i] = p[j] => i = j}

Reorder(s, p) == [i \in 1..Len(s) |-> s[p[i]]]

(***************************************************************************)
(* The format lists of the orchestrator's runs: the descriptors of the     *)
(* three end-to-end scenarios and a video-only format above the ceiling.   *)
(***************************************************************************)
Desc(v, a, h, t, r) ==
  [vcodec |-> v, acodec |-> a, height |-> h, tbr |-> t, abr |-> r]

MetaFields ==
  {Desc("codec", "codec", 720, 1000, NoNum),
   Desc("codec", "none", 720, 1000, NoNum),
   Desc("codec", "none", 1080, 1000, NoNum),
   Desc("none", "codec", NoNum, NoNum, 128)}

(***************************************************************************)
(* State.                                                                  *)
(*   formats, chosen   entry.formats and the result of pickFormats         *)
(*   perm, rechosen    a re-ordering of formats and pickFormats of it      *)
(*   pc                where the main async function is                    *)
(*   outcome           which way the main function went                    *)
(*   job               the two download promises of downloadPromises: the  *)
(*                     call pending (st), the attempt of downloadFile, the *)
(*                     backoff in seconds, and the calls made and how they *)
(*                     ended (log)                                         *)
(*   disk              the files of the working directory that exist       *)
(*   cIdx, cPhase      cleanupFiles: the path it is at, and the call it    *)
(*                     awaits (fs.pathExists or fs.remove)                 *)
(*   rmFailed          some fs.pathExists or fs.remove of cleanupFiles     *)
(*                     has failed                                          *)
(*   visits            the paths cleanupFiles has dealt with, each with    *)
(*                     what became of it                                   *)
(*   reports           the JSON documents printed on standard output       *)
(*   exitCode          the exit code of the process, NoExit while it runs  *)
(*   trace             merge, cleanup and report events, in order          *)
(***************************************************************************)
VARIABLES formats, chosen, perm, rechosen, pc, outcome, job, disk, cIdx,
          cPhase, rmFailed, visits, reports, exitCode, trace

vars ==
  <<formats, chosen, perm, rechosen, pc, outcome, job, disk, cIdx, cPhase,
    rmFailed, visits, reports, exitCode, trace>>

selVars == <<formats, chosen, perm, rechosen>>

mainVars == <<pc, outcome, cIdx, cPhase, reports, exitCode, trace>>

runVars ==
  <<pc, outcome, job, disk, cIdx, cPhase, rmFailed, visits, reports, exitCode,
    trace>>

Jobs == {"video", "audio"}

NoExit == 0 - 1

\* the temp file list with the merged output in it
tempFilesWithMerged == <<"videoFile", "audioFile", "mergedFile">>

\* const tempFiles = [videoFile, audioFile]
tempFiles == <<"videoFile", "audioFile">>

mergedFile == "mergedFile"

FileOf(j) == IF j = "video" THEN "videoFile" ELSE "audioFile"

IdleJob ==
  [st |-> "idle", attempt |-> 0, delay |-> 0, timers |-> <<>>, log |-> <<>>]

Running(j) == job[j].st \in {"request", "stream", "backoff", "ytdlp"}

NoReport ==
  [type |-> "none", height |-> NoNum, url |-> 0, outputFile |-> "",
   videoUrl |-> 0, audioUrl |-> 0, howToMerge |-> <<>>]

\* const out = { type: 'progressive', height: f.height, ext, url: f.url, note }
ProgressiveReport(f) ==
  [NoReport EXCEPT !.type = "progressive", !.height = f.height, !.url = f.url]

\* const out = { type: 'merged', outputFile: mergedFile, video, audio, note }
MergedReport(v, a) ==
  [NoReport EXCEPT !.type = "merged", !.outputFile = mergedFile,
                   !.height = v.height]

\* the fallback report that leaves the audio url out
FallbackReportVideoOnly(v, a) ==
  [NoReport EXCEPT !.type = "dash", !.height = v.height, !.videoUrl = v.url,
                   !.howToMerge = <<"ffmpeg -y", v.url, v.url, "-c copy", mergedFile>>]

\* const fallbackOut = { type: 'dash', video: {.., url}, audio: {.., url}, howToMerge }
FallbackReport(v, a) ==
  [NoReport EXCEPT !.type = "dash", !.height = v.height, !.videoUrl = v.url,
                   !.audioUrl = a.url,
                   !.howToMerge = <<"ffmpeg -y", v.url, a.url, "-c copy", mergedFile>>]

RunInit ==
  /\ pc = "resolving"
  /\ outcome = "none"
  /\ job = [j \in Jobs |-> IdleJob]
  /\ disk = {}
  /\ cIdx = 0
  /\ cPhase = "none"
  /\ rmFailed = FALSE
  /\ visits = <<>>
  /\ reports = <<>>
  /\ exitCode = NoExit
  /\ trace = <<>>

Init ==
  /\ formats = <<>>
  /\ chosen = NotChosen
  /\ perm = <<>>
  /\ rechosen = NotChosen
  /\ RunInit

(***************************************************************************)
(* The main function up to its first await of the downloads                *)
(* (src/install.bat 264-338).                                              *)
(***************************************************************************)
\* } catch (e) { console.error('Error:', e.message); process.exit(2); }
ExitWithError(why) ==
  /\ pc' = "exited"
  /\ outcome' = why
  /\ exitCode' = 2
  /\ UNCHANGED <<job, disk, cIdx, cPhase, rmFailed, visits, reports, trace>>

\* runYtDlpJSON rejects: the tool exits non-zero or prints invalid JSON
MetadataError ==
  /\ pc = "resolving"
  /\ ExitWithError("metaError")
  /\ UNCHANGED selVars

\* if (!entry || !entry.formats || !entry.formats.length) throw
NoFormats ==
  /\ pc = "resolving"
  /\ ExitWithError("noFormats")
  /\ UNCHANGED selVars

\* the metadata tool's answers with formats: entry.formats, not empty
MetaLists ==
  {Numbered(fs) : fs \in UNION {[1..n -> MetaFields] : n \in 1..MaxLen}}

\* if (!chosen) throw new Error('Could not find a <=720p format.')
SelectionNone ==
  \E f \in MetaLists :
    /\ pc = "resolving"
    /\ pickFormats(f) = NullChoice
    /\ formats' = f
    /\ chosen' = pickFormats(f)
    /\ ExitWithError("selectNone")
    /\ UNCHANGED <<perm, rechosen>>

\* the progressive branch that also fetches the stream it reports
ReportProgressiveAndDownload ==
  \E f \in MetaLists :
    /\ pc = "resolving"
    /\ pickFormats(f).type = "progressive"
    /\ formats' = f
    /\ chosen' = pickFormats(f)
    /\ reports' = Append(reports, ProgressiveReport(pickFormats(f).video))
    /\ trace' = Append(trace, "report")
    /\ job' = [job EXCEPT !["video"] = [st |-> "request", attempt |-> 1,
                                         delay |-> 0, timers |-> <<>>, log |-> <<"direct">>]]
    /\ pc' = "finished"
    /\ outcome' = "progressive"
    /\ UNCHANGED <<perm, rechosen, disk, cIdx, cPhase, rmFailed, visits, exitCode>>

\* if (chosen.type === 'progressive') { ... console.log(JSON.stringify(out)) }
ReportProgressive ==
  \E f \in MetaLists :
    /\ pc = "resolving"
    /\ pickFormats(f).type = "progressive"
    /\ formats' = f
    /\ chosen' = pickFormats(f)
    /\ reports' = Append(reports, ProgressiveReport(pickFormats(f).video))
    /\ trace' = Append(trace, "report")
    /\ pc' = "finished"
    /\ outcome' = "progressive"
    /\ UNCHANGED <<perm, rechosen, job, disk, cIdx, cPhase, rmFailed, visits, exitCode>>

\* both downloads start with downloadFile, as in src/index.js
StartDashBothDirect ==
  \E f \in MetaLists :
    /\ pc = "resolving"
    /\ pickFormats(f).type = "dash"
    /\ formats' = f
    /\ chosen' = pickFormats(f)
    /\ job' = [j \in Jobs |-> [st |-> "request", attempt |-> 1, delay |-> 0,
                                timers |-> <<>>, log |-> <<"direct">>]]
    /\ pc' = "acquiring"
    /\ outcome' = "dash"
    /\ UNCHANGED <<perm, rechosen, disk, cIdx, cPhase, rmFailed, visits, reports, exitCode, trace>>

\* downloadPromises.push(downloadFile(v.url, videoFile)...);
\* downloadPromises.push(downloadFileWithYtDlp(a.url, audioFile)...);
\* await Promise.all(downloadPromises)
StartDash ==
  \E f \in MetaLists :
    /\ pc = "resolving"
    /\ pickFormats(f).type = "dash"
    /\ formats' = f
    /\ chosen' = pickFormats(f)
    /\ job' = [j \in Jobs |->
                 IF j = "video"
                   THEN [st |-> "request", attempt |-> 1, delay |-> 0,
                         timers |-> <<>>, log |-> <<"direct">>]
                   ELSE [st |-> "ytdlp", attempt |-> 0, delay |-> 0,
                         timers |-> <<>>, log |-> <<"ytdlp">>]]
    /\ pc' = "acquiring"
    /\ outcome' = "dash"
    /\ UNCHANGED <<perm, rechosen, disk, cIdx, cPhase, rmFailed, visits, reports, exitCode, trace>>

(***************************************************************************)
(* What the main function does when a download promise settles: the        *)
(* continuations of await Promise.all(downloadPromises) run in the same    *)
(* turn of the event loop as the settling of the promise.                  *)
(***************************************************************************)
\* the download/merge error handled by the outer catch: process.exit(2)
RethrowDashError ==
  /\ pc' = "exited"
  /\ outcome' = "fallback"
  /\ exitCode' = 2
  /\ UNCHANGED <<cIdx, cPhase, reports>>

\* } catch (error) { ... await cleanupFiles(tempFiles)
CatchDashError ==
  /\ pc' = "cleanup"
  /\ outcome' = "fallback"
  /\ cIdx' = 1
  /\ cPhase' = "check"
  /\ UNCHANGED <<reports, exitCode>>

\* Promise.all resolves: await mergeVideoAudio(videoFile, audioFile, mergedFile)
BeginMerge ==
  /\ pc' = "merging"
  /\ trace' = Append(trace, "merge_start")
  /\ UNCHANGED <<outcome, cIdx, cPhase, reports, exitCode>>

\* the join goes on to the merge once every promise has settled either way
AfterSettleAnySettled(jb) ==
  IF pc = "acquiring" /\ \A j \in Jobs : jb[j].st \in {"ok", "failed"}
    THEN BeginMerge
    ELSE UNCHANGED mainVars

\* Promise.all rejects with the first promise that rejects, and resolves
\* when every promise has resolved; jb is downloadPromises after the step
AfterSettle(jb) ==
  IF pc = "acquiring" /\ \E j \in Jobs : jb[j].st = "failed"
    THEN CatchDashError /\ trace' = Append(trace, "cleanup_start")
    ELSE IF pc = "acquiring" /\ \A j \in Jobs : jb[j].st = "ok"
           THEN BeginMerge
           ELSE UNCHANGED mainVars

(***************************************************************************)
(* downloadFile (src/install.bat 145-218) and the .catch chains of the two *)
(* download promises (src/install.bat 316-336).                            *)
(***************************************************************************)
\* the direct method has thrown and the download promise rejects with it
AfterDirectFailureNoFallback(j) ==
  [job EXCEPT ![j].st = "failed", ![j].delay = 0,
              ![j].log = @ \o <<"direct_failed">>]

\* the direct method has thrown: the video promise goes on to yt-dlp, the
\* audio promise, which tried yt-dlp first, rejects
AfterDirectFailure(j) ==
  IF j = "video"
    THEN [job EXCEPT ![j].st = "ytdlp", ![j].delay = 0,
                     ![j].log = @ \o <<"direct_failed", "ytdlp">>]
    ELSE [job EXCEPT ![j].st = "failed", ![j].delay = 0,
                     ![j].log = @ \o <<"direct_failed">>]

\* yt-dlp has failed: the audio promise goes on to downloadFile, the video
\* promise, which tried downloadFile first, rejects
AfterYtDlpFailure(j) ==
  IF j = "audio"
    THEN [job EXCEPT ![j].st = "request", ![j].attempt = 1, ![j].delay = 0,
                     ![j].log = @ \o <<"ytdlp_failed", "direct">>]
    ELSE [job EXCEPT ![j].st = "failed",
                     ![j].log = @ \o <<"ytdlp_failed">>]

\* a method has resolved, and with it the download promise
AfterSuccess(j, method) ==
  [job EXCEPT ![j].st = "ok", ![j].log = Append(@, method)]

\* const response = await axios(...) resolves with a 2xx status;
\* fs.createWriteStream(filePath); response.data.pipe(writer)
RequestOk(j) ==
  /\ job[j].st = "request"
  /\ job' = [job EXCEPT ![j].st = "stream"]
  /\ disk' = disk \cup {FileOf(j)}
  /\ UNCHANGED <<selVars, mainVars, rmFailed, visits>>

\* the request fails and the wait before the next attempt is always 2 s
RequestFailFixedDelay(j) ==
  /\ job[j].st = "request"
  /\ IF job[j].attempt = Retries
       THEN /\ job' = AfterDirectFailure(j)
            /\ AfterSettle(AfterDirectFailure(j))
       ELSE /\ job' = [job EXCEPT ![j].st = "backoff",
                                  ![j].delay = 2,
                                  ![j].timers = Append(@, 2000)]
            /\ UNCHANGED mainVars
  /\ UNCHANGED <<selVars, disk, rmFailed, visits>>

\* await axios(...) throws (non-2xx status, transport error, timeout):
\* if (attempt === retries) throw error; else log "Retrying in attempt * 2
\* seconds" and await setTimeout(resolve, attempt * 2000); timers holds the
\* milliseconds handed to setTimeout, delay the seconds of the running wait
RequestFail(j) ==
  /\ job[j].st = "request"
  /\ IF job[j].attempt = Retries
       THEN /\ job' = AfterDirectFailure(j)
            /\ AfterSettle(AfterDirectFailure(j))
       ELSE /\ job' = [job EXCEPT ![j].st = "backoff",
                                  ![j].delay = job[j].attempt * 2,
                                  ![j].timers =
                                     Append(@, job[j].attempt * 2000)]
            /\ UNCHANGED mainVars
  /\ UNCHANGED <<selVars, disk, rmFailed, visits>>

\* the backoff ends and the for loop starts over from its first attempt
BackoffDoneRestartsLoop(j) ==
  /\ job[j].st = "backoff"
  /\ job' = [job EXCEPT ![j].st = "request", ![j].attempt = 1,
                         ![j].delay = 0, ![j].timers = <<>>]
  /\ UNCHANGED <<selVars, mainVars, disk, rmFailed, visits>>

\* the setTimeout of the backoff fires: the next turn of the for loop
BackoffDone(j) ==
  /\ job[j].st = "backoff"
  /\ job' = [job EXCEPT ![j].st = "request", ![j].attempt = @ + 1,
                         ![j].delay = 0]
  /\ UNCHANGED <<selVars, mainVars, disk, rmFailed, visits>>

\* writer.on('finish', ...) resolves the promise downloadFile returned
StreamFinish(j) ==
  /\ job[j].st = "stream"
  /\ job' = AfterSuccess(j, "direct_ok")
  /\ AfterSettle(AfterSuccess(j, "direct_ok"))
  /\ UNCHANGED <<selVars, disk, rmFailed, visits>>

\* writer.on('error') or response.data.on('error') rejects the promise that
\* downloadFile returned without awaiting it: the catch of the for loop
\* does not see the rejection, and downloadFile fails at once
StreamError(j) ==
  /\ job[j].st = "stream"
  /\ job' = AfterDirectFailure(j)
  /\ AfterSettle(AfterDirectFailure(j))
  /\ UNCHANGED <<selVars, disk, rmFailed, visits>>

(***************************************************************************)
(* downloadFileWithYtDlp (src/install.bat 114-142).                        *)
(***************************************************************************)
\* yt-dlp's exit is handled only when no job sits in a backoff, as it would
\* be if the backoff were a blocking sleep
YtDlpOkBlockedByBackoff(j) ==
  /\ job[j].st = "ytdlp"
  /\ \A k \in Jobs : job[k].st # "backoff"
  /\ job' = AfterSuccess(j, "ytdlp_ok")
  /\ disk' = disk \cup {FileOf(j)}
  /\ AfterSettle(AfterSuccess(j, "ytdlp_ok"))
  /\ UNCHANGED <<selVars, rmFailed, visits>>

\* the yt-dlp process exits with status 0, the output written to filePath
YtDlpOk(j) ==
  /\ job[j].st = "ytdlp"
  /\ job' = AfterSuccess(j, "ytdlp_ok")
  /\ disk' = disk \cup {FileOf(j)}
  /\ AfterSettle(AfterSuccess(j, "ytdlp_ok"))
  /\ UNCHANGED <<selVars, rmFailed, visits>>

\* the yt-dlp process fails, having written some of filePath or none
YtDlpFail(j) ==
  /\ job[j].st = "ytdlp"
  /\ job' = AfterYtDlpFailure(j)
  /\ \E partial \in BOOLEAN :
       disk' = IF partial THEN disk \cup {FileOf(j)} ELSE disk
  /\ AfterSettle(AfterYtDlpFailure(j))
  /\ UNCHANGED <<selVars, rmFailed, visits>>

(***************************************************************************)
(* mergeVideoAudio (src/install.bat 221-248).                              *)
(***************************************************************************)
\* ffmpeg's 'end' event; then await cleanupFiles(tempFiles)
MergeEnd ==
  /\ pc = "merging"
  /\ disk' = disk \cup {mergedFile}
  /\ pc' = "cleanup"
  /\ outcome' = "merged"
  /\ cIdx' = 1
  /\ cPhase' = "check"
  /\ trace' = trace \o <<"merge_end", "cleanup_start">>
  /\ UNCHANGED <<selVars, job, rmFailed, visits, reports, exitCode>>

\* ffmpeg's 'error' event, some of the output written or none
MergeError ==
  /\ pc = "merging"
  /\ \E partial \in BOOLEAN :
       disk' = IF partial THEN disk \cup {mergedFile} ELSE disk
  /\ CatchDashError
  /\ trace' = trace \o <<"merge_error", "cleanup_start">>
  /\ UNCHANGED <<selVars, job, rmFailed, visits>>

(***************************************************************************)
(* cleanupFiles (src/install.bat 251-262) and the report that follows it.  *)
(***************************************************************************)
\* the statement after the cleanup of the try block throws: the catch runs
\* cleanupFiles a second time before the fallback report
ReportAfterCleanupThrows ==
  IF outcome = "merged" /\ Len(visits) < Len(tempFiles)
    THEN /\ trace' = trace \o <<"cleanup_end", "cleanup_start">>
         /\ pc' = "cleanup"
         /\ cIdx' = 1
         /\ cPhase' = "check"
         /\ UNCHANGED <<outcome, reports, exitCode>>
    ELSE /\ reports' = Append(reports,
                              FallbackReport(chosen.video, chosen.audio))
         /\ trace' = trace \o <<"cleanup_end", "report">>
         /\ pc' = "finished"
         /\ cIdx' = 0
         /\ cPhase' = "none"
         /\ UNCHANGED <<outcome, exitCode>>

\* console.log('\n' + JSON.stringify(out)) after cleanupFiles has returned:
\* the merged-file report in the try block, the fallback report in the catch
ReportAfterCleanup ==
  /\ reports' = Append(reports,
                       IF outcome = "merged"
                         THEN MergedReport(chosen.video, chosen.audio)
                         ELSE FallbackReport(chosen.video, chosen.audio))
  /\ trace' = trace \o <<"cleanup_end", "report">>
  /\ pc' = "finished"
  /\ cIdx' = 0
  /\ cPhase' = "none"
  /\ UNCHANGED <<outcome, exitCode>>

\* for (const filePath of filePaths): the next path, or the end of the loop
NextPath ==
  IF cIdx < Len(tempFiles)
    THEN /\ cIdx' = cIdx + 1
         /\ cPhase' = "check"
         /\ UNCHANGED <<pc, outcome, reports, exitCode, trace>>
    ELSE ReportAfterCleanup

\* if (await fs.pathExists(filePath)): the path exists and fs.remove is
\* called, or it does not and the path is skipped, or the check fails
\* (it answers false, or throws into the catch) and the path is skipped
CleanupCheck ==
  /\ pc = "cleanup"
  /\ cPhase = "check"
  /\ \E seen \in {"present", "absent", "check_failed"} :
       /\ seen = "present" => tempFiles[cIdx] \in disk
       /\ seen = "absent" => tempFiles[cIdx] \notin disk
       /\ IF seen = "present"
            THEN /\ cPhase' = "remove"
                 /\ UNCHANGED <<pc, outcome, cIdx, reports, exitCode, trace>>
                 /\ UNCHANGED <<rmFailed, visits>>
            ELSE /\ NextPath
                 /\ rmFailed' = (rmFailed \/ seen = "check_failed")
                 /\ visits' = Append(visits, <<tempFiles[cIdx], seen>>)
  /\ UNCHANGED <<selVars, job, disk>>

\* fs.remove inside a try block around the whole loop: a removal that fails
\* ends cleanupFiles
CleanupRemoveAbortsOnFailure ==
  /\ pc = "cleanup"
  /\ cPhase = "remove"
  /\ \E removed \in BOOLEAN :
       /\ disk' = IF removed THEN disk \ {tempFiles[cIdx]} ELSE disk
       /\ rmFailed' = (rmFailed \/ ~removed)
       /\ visits' = Append(visits, <<tempFiles[cIdx],
                                     IF removed THEN "removed" ELSE "remove_failed">>)
       /\ IF removed THEN NextPath ELSE ReportAfterCleanup
  /\ UNCHANGED <<selVars, job>>

\* await fs.remove(filePath), which removes the file or throws into
\* catch (err) { console.warn(...) }
CleanupRemove ==
  /\ pc = "cleanup"
  /\ cPhase = "remove"
  /\ \E removed \in BOOLEAN :
       /\ disk' = IF removed THEN disk \ {tempFiles[cIdx]} ELSE disk
       /\ rmFailed' = (rmFailed \/ ~removed)
       /\ visits' = Append(visits, <<tempFiles[cIdx],
                                     IF removed THEN "removed" ELSE "remove_failed">>)
  /\ NextPath
  /\ UNCHANGED <<selVars, job>>

\* the main function has returned and no download is pending: the event
\* loop is empty and the process ends with exit code 0
ProcessExit ==
  /\ pc = "finished"
  /\ \A j \in Jobs : ~Running(j)
  /\ pc' = "exited"
  /\ exitCode' = 0
  /\ UNCHANGED <<selVars, outcome, job, disk, cIdx, cPhase, rmFailed, visits, reports, trace>>

Next ==
  \/ MetadataError
  \/ NoFormats
  \/ SelectionNone
  \/ ReportProgressive
  \/ StartDash
  \/ \E j \in Jobs : RequestOk(j)
  \/ \E j \in Jobs : RequestFail(j)
  \/ \E j \in Jobs : BackoffDone(j)
  \/ \E j \in Jobs : StreamFinish(j)
  \/ \E j \in Jobs : StreamError(j)
  \/ \E j \in Jobs : YtDlpOk(j)
  \/ \E j \in Jobs : YtDlpFail(j)
  \/ MergeEnd
  \/ MergeError
  \/ CleanupCheck
  \/ CleanupRemove
  \/ ProcessExit

Spec == Init /\ [][Next]_vars

\* Every external call settles: the metadata tool, each HTTP request and its
\* stream, each backoff timer, yt-dlp, ffmpeg and each file check or removal
\* is a step of Next, and a step that stays possible is eventually taken.
FairSpec == Spec /\ WF_vars(Next)

(***************************************************************************)
(* The format selector on its own: pickFormats applied to every list of    *)
(* at most MaxLen descriptors, and to a re-ordering of the list.           *)
(***************************************************************************)
SelInit ==
  /\ \E n \in 0..MaxLen : \E fs \in [1..n -> Fields] : formats = Numbered(fs)
  /\ chosen = NotChosen
  /\ perm = <<>>
  /\ rechosen = NotChosen
  /\ RunInit

\* const chosen = pickFormats(entry.formats)
SelectFormats ==
  /\ chosen = NotChosen
  /\ chosen' = pickFormats(formats)
  /\ UNCHANGED <<formats, perm, rechosen>>
  /\ UNCHANGED runVars

\* pickFormats on a re-ordering of the same descriptors
SelectReordered ==
  /\ chosen # NotChosen
  /\ rechosen = NotChosen
  /\ \E p \in Perms(Len(formats)) :
       /\ perm' = p
       /\ rechosen' = pickFormats(Reorder(formats, p))
  /\ UNCHANGED <<formats, chosen>>
  /\ UNCHANGED runVars

SelNext == SelectFormats \/ SelectReordered

SelSpec == SelInit /\ [][SelNext]_vars

(***************************************************************************)
(* Vocabulary of the properties, stated on the descriptors themselves.     *)
(***************************************************************************)
HasCodec(c) == c \notin {"", "none", "null"}

UpTo720(f) == f.height \in 0..720

MuxedUpTo720(f) == HasCodec(f.vcodec) /\ HasCodec(f.acodec) /\ UpTo720(f)

VideoOnlyEntry(f) == HasCodec(f.vcodec) /\ ~HasCodec(f.acodec)

AudioOnlyEntry(f) == HasCodec(f.acodec) /\ ~HasCodec(f.vcodec)

Entries(s) == {s[i] : i \in 1..Len(s)}

TbrOf(f) == IF f.tbr = NoNum THEN 0 ELSE f.tbr

AbrOf(f) == IF f.abr = NoNum THEN 0 ELSE f.abr

\* the results pickFormats has given so far, on formats and on a re-ordering
Results == {chosen, rechosen} \ {NotChosen}

IdentityPerm == [i \in 1..Len(formats) |-> i]

C4_DashWhenAnyVideoOnly ==
  \A r \in Results :
    ( /\ ~\E f \in Entries(formats) : MuxedUpTo720(f)
      /\ \E f \in Entries(formats) : VideoOnlyEntry(f)
      /\ \E f \in Entries(formats) : AudioOnlyEntry(f) ) =>
      r.type = "dash" /\ UpTo720(r.video)

\* C4 amended: with no muxed entry of height <= 720 but some video-only
\* entry of height <= 720 and some audio-only entry, pickFormats returns
\* Dash with a video of height <= 720.
C4_DashWhenVideoOnlyUpTo720 ==
  \A r \in Results :
    ( /\ ~\E f \in Entries(formats) : MuxedUpTo720(f)
      /\ \E f \in Entries(formats) : VideoOnlyEntry(f) /\ UpTo720(f)
      /\ \E f \in Entries(formats) : AudioOnlyEntry(f) ) =>
      /\ r.type = "dash"
      /\ UpTo720(r.video)
      /\ r.video \in Entries(formats)
      /\ r.audio \in Entries(formats)

C4_Witness ==
  /\ chosen.type = "dash"
  /\ chosen.video.height = 720
  /\ AudioOnlyEntry(formats[1])

\* C5: with no muxed entry of height <= 720, and no video-only entry of
\* height <= 720 or no audio-only entry, pickFormats returns null and the
\* run ends with the selection error: exit code 2, no download started, no
\* file written, no report.
C5_NoneEndsRunBeforeDownloads ==
  ( /\ chosen # NotChosen
    /\ ~\E f \in Entries(formats) : MuxedUpTo720(f)
    /\ \/ ~\E f \in Entries(formats) : VideoOnlyEntry(f) /\ UpTo720(f)
       \/ ~\E f \in Entries(formats) : AudioOnlyEntry(f) ) =>
    /\ chosen = NullChoice
    /\ outcome = "selectNone"
    /\ pc = "exited"
    /\ exitCode = 2
    /\ \A j \in Jobs : job[j] = IdleJob
    /\ disk = {}
    /\ reports = <<>>
    /\ trace = <<>>

\* selection fails although the list holds a video-only and an audio-only entry
C5_Witness ==
  /\ outcome = "selectNone"
  /\ exitCode = 2
  /\ \E f \in Entries(formats) : VideoOnlyEntry(f)
  /\ \E f \in Entries(formats) : AudioOnlyEntry(f)

\* C6 as stated: pickFormats chooses the same descriptors for every
\* re-ordering of the list, also when candidates are equal on every sort key.
C6_SameDescriptorForAnyOrder ==
  rechosen # NotChosen => rechosen = chosen

\* two candidates of the same class that no sort key tells apart
TiedVideo(f, g) ==
  /\ f # g
  /\ f.height = g.height
  /\ TbrOf(f) = TbrOf(g)
  /\ \/ MuxedUpTo720(f) /\ MuxedUpTo720(g)
     \/ VideoOnlyEntry(f) /\ UpTo720(f) /\ VideoOnlyEntry(g) /\ UpTo720(g)

TiedAudio(f, g) ==
  /\ f # g
  /\ AudioOnlyEntry(f) /\ AudioOnlyEntry(g)
  /\ AbrOf(f) = AbrOf(g)
  /\ TbrOf(f) = TbrOf(g)

HasTie ==
  \E f, g \in Entries(formats) : TiedVideo(f, g) \/ TiedAudio(f, g)

\* C6 amended: for every re-ordering of the list pickFormats returns a
\* result of the same type whose descriptors are equal on every sort key
\* (height and tbr-or-0 of the video, abr-or-0 and tbr-or-0 of the audio);
\* they are the same descriptors when no two candidates of one class are
\* equal on every sort key, and when the order is unchanged.
C6_SameKeysForAnyOrder ==
  rechosen # NotChosen =>
    /\ rechosen.type = chosen.type
    /\ rechosen.video.height = chosen.video.height
    /\ TbrOf(rechosen.video) = TbrOf(chosen.video)
    /\ AbrOf(rechosen.audio) = AbrOf(chosen.audio)
    /\ TbrOf(rechosen.audio) = TbrOf(chosen.audio)
    /\ (~HasTie \/ perm = IdentityPerm) => rechosen = chosen

\* the list is reversed, its two candidates differ in tbr only
C6_Witness ==
  /\ Len(formats) = 2
  /\ perm = <<2, 1>>
  /\ \A f \in Entries(formats) : MuxedUpTo720(f)
  /\ formats[1].height = formats[2].height
  /\ TbrOf(formats[1]) < TbrOf(formats[2])
  /\ rechosen = chosen
  /\ chosen.video = formats[2]

\* C7: among the muxed entries of height <= 720 that have the maximal
\* height, pickFormats returns one of highest tbr, a missing tbr counting
\* as 0, whatever the order of the list.
C7_HighestTbrAtMaxHeight ==
  \A r \in Results :
    r.type = "progressive" =>
      \A f \in Entries(formats) :
        MuxedUpTo720(f) =>
          \/ f.height < r.video.height
          \/ f.height = r.video.height /\ TbrOf(f) <= TbrOf(r.video)

\* the entry without tbr comes first and the one with tbr is chosen, in
\* both orders
C7_Witness ==
  /\ Len(formats) = 2
  /\ \A f \in Entries(formats) : MuxedUpTo720(f)
  /\ formats[1].height = formats[2].height
  /\ formats[1].tbr = NoNum
  /\ formats[2].tbr # NoNum
  /\ chosen.video = formats[2]
  /\ perm = <<2, 1>>
  /\ rechosen.video = formats[2]

\* C8 as stated: no descriptor pickFormats returns, the audio of a Dash
\* result included, has a height above 720.
C8_NoReturnedHeightAbove720 ==
  \A r \in Results :
    /\ r.type \in {"progressive", "dash"} => r.video.height <= 720
    /\ r.type = "dash" => r.audio.height <= 720

\* C8 amended: the video pickFormats returns, Progressive or Dash, has a
\* height of at most 720; the audio of a Dash result is chosen whatever
\* its height.
C8_NoReturnedVideoAbove720 ==
  \A r \in Results :
    r.type \in {"progressive", "dash"} =>
      r.video.height # NoNum /\ r.video.height <= 720

\* an entry above the ceiling comes first in the list and is passed over
C8_Witness ==
  /\ chosen.type \in {"progressive", "dash"}
  /\ Len(formats) = 2
  /\ HasCodec(formats[1].vcodec)
  /\ formats[1].height > 720
  /\ chosen.video = formats[2]

\* C9: a Dash result has a video with a video codec and no audio codec,
\* an audio with an audio codec and no video codec, and the two are not
\* the same descriptor.
C9_DashTracksDisjoint ==
  \A r \in Results :
    r.type = "dash" =>
      /\ HasCodec(r.video.vcodec)
      /\ ~HasCodec(r.video.acodec)
      /\ HasCodec(r.audio.acodec)
      /\ ~HasCodec(r.audio.vcodec)
      /\ r.video # r.audio
      /\ r.video.url # r.audio.url

C9_Witness ==
  /\ chosen.type = "dash"
  /\ rechosen.type = "dash"
  /\ perm = <<2, 1>>

(***************************************************************************)
(* Properties of the runs.                                                 *)
(***************************************************************************)
Ended == pc = "exited"

\* C1: when a Dash run that went through the fallback has ended and no
\* removal of cleanupFiles has failed, neither the video nor the audio
\* intermediate file exists.
C1_NoTempFileAfterFallback ==
  (Ended /\ outcome = "fallback" /\ ~rmFailed) =>
    "videoFile" \notin disk /\ "audioFile" \notin disk

ReportTypeOf(o) ==
  CASE o = "progressive" -> "progressive"
    [] o = "merged" -> "merged"
    [] o = "fallback" -> "dash"
    [] OTHER -> "none"

\* C2: a run ends with exit code 0 and exactly one report (progressive,
\* merged or dash fallback), exactly when it went through the progressive
\* report, the merge success path or the fallback; or with exit code 2 and
\* no report, exactly when metadata resolution failed, gave no formats or
\* selection returned null.  A download or merge failure never gives exit
\* code 2.
C2_ExitCodeAndReport ==
  /\ Len(reports) <= 1
  /\ Ended <=> exitCode \in {0, 2}
  /\ exitCode = 0 <=>
       (Ended /\ outcome \in {"progressive", "merged", "fallback"})
  /\ exitCode = 2 <=> outcome \in {"metaError", "noFormats", "selectNone"}
  /\ exitCode = 0 =>
       Len(reports) = 1 /\ reports[1].type = ReportTypeOf(outcome)
  /\ exitCode = 2 =>
       /\ reports = <<>>
       /\ \A j \in Jobs : job[j] = IdleJob
       /\ outcome = "selectNone" => chosen = NullChoice
       /\ outcome # "selectNone" => chosen = NotChosen
  /\ ( \/ \E j \in Jobs : job[j].st = "failed"
       \/ \E i \in 1..Len(trace) : trace[i] = "merge_error" ) =>
       exitCode # 2

\* both downloads have failed and the run has ended with exit code 0
C2_Witness ==
  /\ Ended
  /\ exitCode = 0
  /\ \A j \in Jobs : job[j].st = "failed"
  /\ Len(reports) = 1
  /\ reports[1].type = "dash"

\* C10 as stated: in a Dash run where both downloads and the merge succeed
\* the events are merge completion, cleanup, merged-file report, in that
\* order, and at the end both intermediate files are absent and the merged
\* file is there.
C10_MergedRunLeavesOnlyOutput ==
  (Ended /\ outcome = "merged") =>
    /\ trace = <<"merge_start", "merge_end", "cleanup_start", "cleanup_end", "report">>
    /\ "videoFile" \notin disk /\ "audioFile" \notin disk
    /\ "mergedFile" \in disk

\* C10 amended: the same order of events, the merged file is not removed,
\* and both intermediate files are absent at the end provided no removal
\* of cleanupFiles has failed.
C10_MergedRunOrderAndFiles ==
  outcome = "merged" =>
    /\ \A j \in Jobs : job[j].st = "ok"
    /\ "mergedFile" \in disk
    /\ pc = "cleanup" =>
         /\ trace = <<"merge_start", "merge_end", "cleanup_start">>
         /\ reports = <<>>
    /\ pc \in {"finished", "exited"} =>
         /\ trace = <<"merge_start", "merge_end", "cleanup_start", "cleanup_end", "report">>
         /\ Len(reports) = 1
         /\ reports[1].type = "merged"
         /\ ~rmFailed => ("videoFile" \notin disk /\ "audioFile" \notin disk)

\* a merged run has ended, the intermediates removed and the output kept
C10_Witness ==
  /\ Ended
  /\ outcome = "merged"
  /\ disk = {"mergedFile"}
  /\ reports # <<>>

\* the events of trace named e
Count(e) == Cardinality({i \in 1..Len(trace) : trace[i] = e})

\* the event e comes before the event g in trace
Before(e, g) ==
  \E i, k \in 1..Len(trace) : i < k /\ trace[i] = e /\ trace[k] = g

DownloadFailed == \E j \in Jobs : job[j].st = "failed"

MergeFailed == Count("merge_error") > 0

\* the -i arguments of the ffmpeg command are its second and third part
Named(cmd, u) == Len(cmd) >= 3 /\ \E i \in 2..3 : cmd[i] = u

\* C11: in a Dash run in which a download fails terminally or the merge
\* fails, the main function runs cleanupFiles and only afterwards prints a
\* dash fallback report holding the video url, the audio url and a
\* howToMerge command that names both urls; the failure never leaves the
\* inner catch (no exit code 2, no other report).
C11_FailureGivesFallbackAfterCleanup ==
  (DownloadFailed \/ MergeFailed) =>
    /\ outcome = "fallback"
    /\ exitCode # 2
    /\ Count("cleanup_start") = 1
    /\ pc \in {"cleanup", "finished", "exited"}
    /\ pc = "cleanup" => reports = <<>>
    /\ pc \in {"finished", "exited"} =>
         /\ Before("cleanup_start", "cleanup_end")
         /\ Before("cleanup_end", "report")
         /\ Len(visits) = 2
         /\ Len(reports) = 1
         /\ reports[1].type = "dash"
         /\ reports[1].videoUrl = chosen.video.url
         /\ reports[1].audioUrl = chosen.audio.url
         /\ reports[1].videoUrl # reports[1].audioUrl
         /\ Named(reports[1].howToMerge, chosen.video.url)
         /\ Named(reports[1].howToMerge, chosen.audio.url)

\* the merge has failed and the fallback report is out
C11_Witness ==
  /\ MergeFailed
  /\ Ended
  /\ exitCode = 0
  /\ reports[1].type = "dash"

\* C12: a Progressive run prints its report and ends: no download is
\* started, no merge and no cleanup takes place, and no file is written.
C12_ProgressiveOnlyReports ==
  outcome = "progressive" =>
    /\ chosen.type = "progressive"
    /\ \A j \in Jobs : job[j] = IdleJob
    /\ disk = {}
    /\ visits = <<>>
    /\ trace = <<"report">>
    /\ Len(reports) = 1
    /\ reports[1].type = "progressive"
    /\ reports[1].url = chosen.video.url
    /\ pc \in {"finished", "exited"}
    /\ exitCode # 2

\* a Progressive run has ended while the metadata also listed a separate track
C12_Witness ==
  /\ outcome = "progressive"
  /\ Ended
  /\ exitCode = 0
  /\ \E i \in 1..Len(formats) : VideoOnlyEntry(formats[i])

ErrorOutcomes == {"metaError", "noFormats", "selectNone"}

\* the process has ended with one report, or with the error exit and no
\* report, and no download is in flight
EndedWithReportOrError ==
  /\ Ended
  /\ \A j \in Jobs : ~Running(j)
  /\ \/ exitCode = 0 /\ Len(reports) = 1 /\ reports[1].type # "none"
     \/ exitCode = 2 /\ reports = <<>> /\ outcome \in ErrorOutcomes

\* C13: if every external call settles, every run eventually ends, with a
\* report or with a metadata/selection error, and with no download job
\* still running; the main function is never left waiting forever.
C13_EveryRunEnds == <>EndedWithReportOrError

\* a run has ended after both jobs used up every attempt of both methods
C13_Witness ==
  /\ EndedWithReportOrError
  /\ job["audio"].attempt = Retries
  /\ job["video"].attempt = Retries
  /\ \A j \in Jobs : job[j].st = "failed"

\* C14: when a download job has failed, cleanup is not started and no report
\* is printed while the other job is still running.
C14_NoCleanupOrReportWhileJobRuns ==
  (DownloadFailed /\ (Count("cleanup_start") > 0 \/ reports # <<>>)) =>
    \A j \in Jobs : ~Running(j)

\* the entry e is in the log of job j
Logged(j, e) == \E i \in 1..Len(job[j].log) : job[j].log[i] = e

\* C15: no job makes more than three direct attempts, and the direct method
\* has failed (and the other method or the rejection follows) only after the
\* third attempt has failed, whatever the kind of failure.
C15_DirectFailsOnlyAfterThreeAttempts ==
  \A j \in Jobs :
    /\ job[j].attempt <= Retries
    /\ Logged(j, "direct_failed") => job[j].attempt = Retries

\* what a job can have logged when it tries the direct method first
DirectFirstLogs ==
  {<<"direct">>,
   <<"direct", "direct_ok">>,
   <<"direct", "direct_failed", "ytdlp">>,
   <<"direct", "direct_failed", "ytdlp", "ytdlp_ok">>,
   <<"direct", "direct_failed", "ytdlp", "ytdlp_failed">>}

\* what a job can have logged when it tries yt-dlp first
YtDlpFirstLogs ==
  {<<"ytdlp">>,
   <<"ytdlp", "ytdlp_ok">>,
   <<"ytdlp", "ytdlp_failed", "direct">>,
   <<"ytdlp", "ytdlp_failed", "direct", "direct_ok">>,
   <<"ytdlp", "ytdlp_failed", "direct", "direct_failed">>}

\* the method the job is in is the last one its log names
InMethodLogged(j) ==
  /\ job[j].st \in {"request", "stream", "backoff"} =>
       job[j].log[Len(job[j].log)] = "direct"
  /\ job[j].st = "ytdlp" => job[j].log[Len(job[j].log)] = "ytdlp"

\* C16: the video job tries the direct method first and yt-dlp only after
\* the direct method has failed; the audio job tries yt-dlp first and the
\* direct method only after yt-dlp has failed; a job whose first method
\* has succeeded does not start its second method.
C16_MethodOrder ==
  outcome \in {"dash", "merged", "fallback"} =>
    /\ job["video"].log \in DirectFirstLogs
    /\ job["audio"].log \in YtDlpFirstLogs
    /\ \A j \in Jobs : InMethodLogged(j)

\* the video job ended in yt-dlp after the direct method failed, and the
\* audio job ended with its first method
C16_Witness ==
  /\ job["video"].log = <<"direct", "direct_failed", "ytdlp", "ytdlp_ok">>
  /\ job["audio"].log = <<"ytdlp", "ytdlp_ok">>
  /\ Ended

MethodSucceeded(j) == Logged(j, "direct_ok") \/ Logged(j, "ytdlp_ok")

BothMethodsFailed(j) == Logged(j, "direct_failed") /\ Logged(j, "ytdlp_failed")

\* C17: a download job has succeeded exactly when one of its methods has
\* succeeded, and has failed exactly when both methods have failed; a failed
\* job puts the run on the fallback path, and a run is on the fallback path
\* only after a job lost both methods or the merge failed.
C17_JobOutcomeFromMethods ==
  /\ \A j \in Jobs :
       /\ job[j].st = "ok" <=> MethodSucceeded(j)
       /\ job[j].st = "failed" <=> BothMethodsFailed(j)
       /\ job[j].st = "failed" => outcome = "fallback"
       /\ ~(MethodSucceeded(j) /\ BothMethodsFailed(j))
  /\ outcome = "fallback" =>
       MergeFailed \/ \E j \in Jobs : BothMethodsFailed(j)

\* the first method of each job failed, the second succeeded, and the run
\* went on to a merged report
C17_Witness ==
  /\ \A j \in Jobs : job[j].st = "ok" /\ Len(job[j].log) = 4
  /\ outcome = "merged"
  /\ Ended

MergeInvoked == Count("merge_start") > 0

\* C18: the merge is started only when both download jobs have succeeded;
\* once a job has failed, the run never starts the merge and never prints a
\* merged-file report.
C18_MergeOnlyAfterBothSucceed ==
  /\ (MergeInvoked \/ outcome = "merged") =>
       \A j \in Jobs : job[j].st = "ok"
  /\ pc = "merging" <=> (MergeInvoked /\ Count("merge_end") = 0 /\ ~MergeFailed)
  /\ pc = "merging" => \A j \in Jobs : FileOf(j) \in disk
  /\ DownloadFailed =>
       /\ ~MergeInvoked
       /\ outcome # "merged"
       /\ \A i \in 1..Len(reports) : reports[i].type # "merged"

\* the merge is running on two downloaded files
C18_Witness ==
  /\ pc = "merging"
  /\ \A j \in Jobs : job[j].st = "ok" /\ FileOf(j) \in disk
  /\ job["video"].log = <<"direct", "direct_failed", "ytdlp", "ytdlp_ok">>

DashRun == outcome \in {"dash", "merged", "fallback"}

\* C19: in a Dash run cleanupFiles is called at most once, and exactly once
\* (started and returned) by the time the report is printed and the run
\* ends, after successful merge, after a failed download and after a failed
\* merge alike; outside a Dash run it is not called.
C19_CleanupExactlyOnce ==
  /\ Count("cleanup_start") <= 1
  /\ Count("cleanup_end") <= Count("cleanup_start")
  /\ pc = "cleanup" <=> (Count("cleanup_start") = 1 /\ Count("cleanup_end") = 0)
  /\ (DashRun /\ (pc \in {"finished", "exited"} \/ reports # <<>>)) =>
       /\ Count("cleanup_start") = 1
       /\ Count("cleanup_end") = 1
       /\ Before("cleanup_end", "report")
       /\ Len(visits) = Len(tempFiles)
  /\ (DownloadFailed \/ MergeFailed \/ Count("merge_end") > 0) =>
       Count("cleanup_start") = 1
  /\ ~DashRun => Count("cleanup_start") = 0 /\ visits = <<>>

\* a run whose merge failed has ended after one cleanup
C19_Witness ==
  /\ MergeFailed
  /\ Ended
  /\ Count("cleanup_start") = 1
  /\ Count("cleanup_end") = 1
  /\ Len(visits) = Len(tempFiles)

VisitFailed(i) == visits[i][2] \in {"check_failed", "remove_failed"}

\* C20: cleanupFiles goes through every path of the list in order, one
\* attempt each, whether or not the check or the removal of an earlier path
\* failed; a failure is recorded only, and the run still prints the report
\* of its path (merged after a successful merge, dash otherwise) and ends
\* with exit code 0; a path that does not exist is skipped without a
\* failure.
C20_CleanupToleratesFailures ==
  /\ Len(visits) <= Len(tempFiles)
  /\ \A i \in 1..Len(visits) : visits[i][1] = tempFiles[i]
  /\ pc = "cleanup" => cIdx = Len(visits) + 1
  /\ Count("cleanup_end") = 1 => Len(visits) = Len(tempFiles)
  /\ rmFailed <=> \E i \in 1..Len(visits) : VisitFailed(i)
  /\ rmFailed => exitCode # 2
  /\ (rmFailed /\ Ended) =>
       /\ exitCode = 0
       /\ Len(reports) = 1
       /\ reports[1].type = IF Count("merge_end") = 1 THEN "merged" ELSE "dash"

\* the check or the removal of the first path failed, the second path was
\* still removed, and the run ended with the merged report
C20_Witness ==
  /\ Ended
  /\ Len(visits) = 2
  /\ VisitFailed(1)
  /\ visits[2][2] = "removed"
  /\ reports[1].type = "merged"
  /\ exitCode = 0

\* the job k can take the step that its state calls for, and the step
\* leaves the job j as it is
CanStepBeside(k, j) ==
  /\ job[k].st = "request" =>
       /\ ENABLED (RequestOk(k) /\ job'[j] = job[j])
       /\ ENABLED (RequestFail(k) /\ job'[j] = job[j])
  /\ job[k].st = "stream" =>
       /\ ENABLED (StreamFinish(k) /\ job'[j] = job[j])
       /\ ENABLED (StreamError(k) /\ job'[j] = job[j])
  /\ job[k].st = "ytdlp" =>
       /\ ENABLED (YtDlpOk(k) /\ job'[j] = job[j])
       /\ ENABLED (YtDlpFail(k) /\ job'[j] = job[j])
  /\ job[k].st = "backoff" =>
       ENABLED (BackoffDone(k) /\ job'[j] = job[j])

\* C21: both download jobs are started together (from the start of the
\* downloads no job is idle, and a job that has not settled its first
\* method is running), and while a job waits in its backoff the other job
\* can take every step its state calls for, completion included, with the
\* waiting job left in its backoff.
C21_BackoffBlocksOnlyItsJob ==
  /\ DashRun => \A j \in Jobs : job[j].st # "idle"
  /\ DashRun => \A j \in Jobs : Len(job[j].log) = 1 => Running(j)
  /\ \A j, k \in Jobs :
       (j # k /\ job[j].st = "backoff") => CanStepBeside(k, j)

\* the audio job has completed while the video job waits in its first
\* backoff
C21_Witness ==
  /\ job["video"].st = "backoff"
  /\ job["video"].attempt = 1
  /\ job["audio"].st = "ok"
  /\ pc = "acquiring"

\* the waits, in milliseconds, that come before direct attempt number n
WaitsBefore(n) ==
  CASE n = 1 -> <<>>
    [] n = 2 -> <<2 * 1000>>
    [] n = 3 -> <<2 * 1000, 4 * 1000>>
    [] OTHER -> <<>>

\* C22: the wait after failed direct attempt k (k = 1, 2) is k * 2 seconds,
\* 2 s and then 4 s; nothing is waited before the first attempt, after the
\* third attempt, or by a job that has not started the direct method.
C22_BackoffDelays ==
  \A j \in Jobs :
    /\ job[j].st = "backoff" =>
         /\ job[j].attempt \in {1, 2}
         /\ job[j].delay = job[j].attempt * 2
         /\ job[j].timers = WaitsBefore(job[j].attempt + 1)
    /\ job[j].st # "backoff" =>
         /\ job[j].delay = 0
         /\ job[j].timers = WaitsBefore(job[j].attempt)
    /\ \A i \in 1..Len(job[j].timers) :
         /\ job[j].timers[i] = i * 2 * 1000
         /\ i > 1 => job[j].timers[i] > job[j].timers[i - 1]
    /\ Len(job[j].timers) <= 2

\* the third direct attempt of the audio job has failed after waits of 2 s
\* and 4 s, and nothing was waited after it
C22_Witness ==
  /\ job["audio"].st = "failed"
  /\ job["audio"].attempt = 3
  /\ job["audio"].timers = <<2000, 4000>>
  /\ job["audio"].delay = 0
  /\ Ended

====
